---- MODULE Spec2Model ----
(***************************************************************************)
(* CategoricalDQNAgent (agent/CategoricalDQN.py): the categorical          *)
(* projection of train_by_replay, greedy action selection, the agent loop  *)
(* of transition() and the construction of the support.                    *)
(*                                                                         *)
(* Real numbers are exact rationals <<n, d>> in lowest terms with d > 0;   *)
(* <<0, 0>> stands for NaN (0.0 / 0.0 in numpy).  Arrays are functions     *)
(* over 0..len-1, as numpy indexes them.                                   *)
(***************************************************************************)
EXTENDS Integers, Sequences, FiniteSets, TLC

VARIABLES
    config,         \* self.config: the configuration object
    pc,             \* where the program is: "new", "ready", "trained", "evaluated",
                    \* "reset", "step", "finished", or the name of the exception raised
    atoms,          \* self.atoms
    delta_z,        \* self.delta_z
    total_steps,    \* self.total_steps
    replay_buffer,  \* self.replay_buffer (a deque of records)
    actor_network,  \* weights of self.actor_network (a version number)
    target_network, \* weights of self.target_network (a version number)
    each_ep,        \* transition(): index of the running episode
    step,           \* transition(): index of the next step of the episode
    fits,           \* number of calls of train_by_replay made by transition()
    syncs,          \* number of calls of target_network.set_weights made by transition()
    prob_next,      \* train_by_replay: target_network.predict(next_states)
    rewards,        \* train_by_replay: sampled rewards
    terminals,      \* train_by_replay: sampled terminal flags
    target_histo,   \* train_by_replay: the target handed to actor_network.fit
    action_prob,    \* eval_step: actor_network.predict(state)[0]
    action          \* eval_step: the action chosen

vars == <<config, pc, atoms, delta_z, total_steps, replay_buffer, actor_network,
          target_network, each_ep, step, fits, syncs, prob_next, rewards,
          terminals, target_histo, action_prob, action>>

(***************************************************************************)
(* Bounds of the model.                                                    *)
(***************************************************************************)
MaxReward == 1      \* rewards are the integers -MaxReward..MaxReward
ProbUnits == 2      \* probabilities are multiples of 1/ProbUnits
MaxSteps == 3       \* config.steps is at most MaxSteps

(***************************************************************************)
(* Exact arithmetic.                                                       *)
(***************************************************************************)
Abs(x) == IF x < 0 THEN -x ELSE x

RECURSIVE GCD(_, _)
GCD(a, b) == IF b = 0 THEN a ELSE GCD(b, a % b)

\* the rational n/d in lowest terms; n/0 is NaN (n = 0) or an infinity, as in numpy
Rat(n, d) ==
    IF d = 0 THEN <<(IF n > 0 THEN 1 ELSE IF n < 0 THEN -1 ELSE 0), 0>>
    ELSE LET s == IF d < 0 THEN -1 ELSE 1
             g == GCD(Abs(n), Abs(d))
         IN  <<(s * n) \div g, (s * d) \div g>>

NaN == <<0, 0>>
Int2R(k) == <<k, 1>>
Zero == Int2R(0)
One == Int2R(1)

RAdd(x, y) ==
    IF x = Zero THEN y
    ELSE IF y = Zero THEN x
    ELSE Rat(x[1] * y[2] + y[1] * x[2], x[2] * y[2])
RSub(x, y) == Rat(x[1] * y[2] - y[1] * x[2], x[2] * y[2])
RMul(x, y) == IF x = Zero \/ y = Zero THEN Zero ELSE Rat(x[1] * y[1], x[2] * y[2])
\* x / y for finite x and y
RDiv(x, y) == Rat(x[1] * y[2], x[2] * y[1])
RLe(x, y) == x[1] * y[2] <= y[1] * x[2]
RLt(x, y) == x[1] * y[2] < y[1] * x[2]
RMax(x, y) == IF RLe(x, y) THEN y ELSE x
RMin(x, y) == IF RLe(x, y) THEN x ELSE y

\* np.floor(x).astype(int)
Floor(x) == x[1] \div x[2]
\* np.ceil(x).astype(int)
Ceil(x) == -((-x[1]) \div x[2])

\* f[lo] + ... + f[hi-1], summed by halves (exact addition is associative)
RECURSIVE SumRange(_, _, _)
SumRange(f, lo, hi) ==
    IF hi <= lo THEN Zero
    ELSE IF hi = lo + 1 THEN f[lo]
    ELSE LET mid == (lo + hi) \div 2
         IN  RAdd(SumRange(f, lo, mid), SumRange(f, mid, hi))

\* sum of the entries of the array f, whose indices are 0..len-1
RSum(f) == SumRange(f, 0, Cardinality(DOMAIN f))

\* the array with the entries of f, each computed once
Array(f) == f @@ <<>>

\* np.dot(p, z) of two vectors over the same indices
Dot(p, z) == RSum([j \in DOMAIN p |-> RMul(p[j], z[j])])

(***************************************************************************)
(* Configurations (utils.config.Config is given to the agent; its fields   *)
(* are read at the lines named in MODEL_MAP).                              *)
(***************************************************************************)
Cfg(vmin, vmax, n, gamma, bs, ad, rbs, wuf, eps, stps) ==
    [Categorical_Vmin |-> vmin, Categorical_Vmax |-> vmax, Categorical_n_atoms |-> n,
     discount_rate |-> gamma, batch_size |-> bs, action_dim |-> ad,
     replay_buffer_size |-> rbs, weights_update_frequency |-> wuf,
     episodes |-> eps, steps |-> stps]

\* discount rates 0.5, 0.9 and 1
DiscountRates == {Rat(1, 2), Rat(9, 10), One}

\* supports <<Vmin, Vmax, n_atoms>> with delta_z = 1, 1/2, 3/2 and 1/3
SmallSupports == {<<-1, 1, 3>>, <<0, 1, 3>>, <<0, 3, 3>>, <<0, 1, 4>>}
\* the support of the scenarios of the specification: delta_z = 1, 21 atoms
WideSupport == <<-10, 10, 21>>

\* agents whose train_by_replay and eval_step are called directly
ProjConfigs ==
    {Cfg(s[1], s[2], s[3], g, bs, 2, bs, 0, 0, 0) :
        s \in SmallSupports, g \in DiscountRates, bs \in {1}}
    \cup {Cfg(0, 1, 2, g, 2, 2, 2, 0, 0, 0) : g \in {Rat(1, 2)}}
    \cup {Cfg(WideSupport[1], WideSupport[2], WideSupport[3], g, 1, 1, 1, 0, 0, 0) :
        g \in {Rat(9, 10), Rat(99, 100)}}

\* agents that run transition()
LoopConfigs ==
    {Cfg(0, 1, 2, Rat(1, 2), 1, 2, rbs, wuf, 2, MaxSteps) :
        rbs \in 1..3, wuf \in {0, 1, 3}}

\* every configuration the constructor may be given
AnyConfigs ==
    {Cfg(vmin, vmax, n, g, 1, 2, 1, 0, 0, 0) :
        vmin \in -1..1, vmax \in -1..1, n \in 1..3, g \in {Rat(1, 2), One}}

\* n_atoms >= 2 and vmax > vmin (hence delta_z > 0)
ValidSupport(c) ==
    /\ c.Categorical_n_atoms >= 2
    /\ c.Categorical_Vmax > c.Categorical_Vmin

(***************************************************************************)
(* __init__                                                                *)
(***************************************************************************)
\* np.linspace(start, stop, num), num >= 1
Linspace(start, stop, num) ==
    [j \in 0..(num - 1) |->
        IF num = 1 THEN Int2R(start)
        ELSE RAdd(Int2R(start), RMul(Int2R(j), Rat(stop - start, num - 1)))]

\* the state of the agent before the constructor has run
Blank(c) ==
    /\ config = c
    /\ pc = "new"
    /\ atoms = <<>>
    /\ delta_z = Zero
    /\ total_steps = 0
    /\ replay_buffer = <<>>
    /\ actor_network = 0
    /\ target_network = 0
    /\ each_ep = 0
    /\ step = 0
    /\ fits = 0
    /\ syncs = 0
    /\ prob_next = <<>>
    /\ rewards = <<>>
    /\ terminals = <<>>
    /\ target_histo = <<>>
    /\ action_prob = <<>>
    /\ action = 0

\* CategoricalDQNAgent(config): float division by zero raises when n_atoms = 1
Construct ==
    /\ pc = "new"
    /\ atoms' = Linspace(config.Categorical_Vmin, config.Categorical_Vmax,
                         config.Categorical_n_atoms)
    /\ total_steps' = 0
    /\ replay_buffer' = <<>>
    /\ IF config.Categorical_n_atoms - 1 = 0
       THEN /\ pc' = "ZeroDivisionError"
            /\ UNCHANGED delta_z
       ELSE /\ pc' = "ready"
            /\ delta_z' = Rat(config.Categorical_Vmax - config.Categorical_Vmin,
                              config.Categorical_n_atoms - 1)
    /\ UNCHANGED <<config, actor_network, target_network, each_ep, step, fits, syncs,
                   prob_next, rewards, terminals, target_histo, action_prob, action>>

(***************************************************************************)
(* Inputs: what the collaborators (replay_fn, the networks, the            *)
(* environment) may hand to the agent.                                     *)
(***************************************************************************)
Range(n) == 0..(n - 1)

\* vectors of n naturals that sum to u
RECURSIVE Counts(_, _)
Counts(n, u) ==
    IF u = 0 THEN {[j \in Range(n) |-> 0]}
    ELSE {[v EXCEPT ![j] = @ + 1] : v \in Counts(n, u - 1), j \in Range(n)}

\* probability vectors over n atoms: multiples of 1/ProbUnits, point masses on
\* the wide support
ProbVectors(n) ==
    LET u == IF n = WideSupport[3] THEN 1 ELSE ProbUnits
    IN  {[j \in Range(n) |-> Rat(v[j], u)] : v \in Counts(n, u)}

\* outputs of predict() for one state: a distribution per action
ProbRows == [Range(config.action_dim) -> ProbVectors(config.Categorical_n_atoms)]
ProbBatches == [Range(config.batch_size) -> ProbRows]
Rewards == {Int2R(k) : k \in (-MaxReward)..MaxReward}
RewardBatches == [Range(config.batch_size) -> Rewards]
TerminalBatches == [Range(config.batch_size) -> {0, 1}]

(***************************************************************************)
(* Greedy action selection                                                 *)
(***************************************************************************)
\* a mutant of ArgMax: the last index of a maximal entry
ArgMax_Last(q) ==
    CHOOSE a \in DOMAIN q :
        /\ \A k \in DOMAIN q : RLe(q[k], q[a])
        /\ \A k \in DOMAIN q : k > a => RLt(q[k], q[a])

\* np.argmax(q): the first index of a maximal entry
ArgMax(q) ==
    CHOOSE a \in DOMAIN q :
        /\ \A k \in DOMAIN q : RLe(q[k], q[a])
        /\ \A k \in DOMAIN q : k < a => RLt(q[k], q[a])

\* np.dot(prob, self.atoms) for one state: a Q-value per action
QValues(probs) == Array([a \in DOMAIN probs |-> Dot(probs[a], atoms)])

(***************************************************************************)
(* train_by_replay.  The code computes on whole batches; the operators     *)
(* below give row i of each array from row i of its inputs: p = prob_next[i]*)
(* as predicted (a distribution per action), r = rewards[i],               *)
(* t = terminals[i].                                                       *)
(***************************************************************************)
\* action_next[i] = np.argmax(q_next, axis=1)[i]
ActionNext(p) == ArgMax(QValues(p))

\* prob_next[i] after the selection of the action
ProbSelected(p) == p[ActionNext(p)]

\* a mutant of DiscountRate: the terminal flag is ignored
DiscountRate_NoTerminal(t) == config.discount_rate

\* config.discount_rate * (1 - terminals)
DiscountRate(t) == RMul(config.discount_rate, Int2R(1 - t))

\* rewards + discount_rate * atoms, before clipping
AtomsNextRaw(r, t) ==
    LET d == DiscountRate(t)
    IN  Array([j \in DOMAIN atoms |-> RAdd(r, RMul(d, atoms[j]))])

\* a mutant of Clip: values above hi are not saturated
Clip_LowerOnly(x, lo, hi) == RMax(x, lo)

\* np.clip(x, lo, hi) = minimum(hi, maximum(x, lo))
Clip(x, lo, hi) == RMin(hi, RMax(x, lo))

AtomsNext(r, t) ==
    LET raw == AtomsNextRaw(r, t)
    IN  Array([j \in DOMAIN atoms |->
            Clip(raw[j], Int2R(config.Categorical_Vmin), Int2R(config.Categorical_Vmax))])

\* b = (atoms_next - Vmin) / delta_z
B(r, t) ==
    LET an == AtomsNext(r, t)
    IN  Array([j \in DOMAIN atoms |->
            RDiv(RSub(an[j], Int2R(config.Categorical_Vmin)), delta_z)])

\* l = np.floor(b).astype(int)
L(b) == Array([j \in DOMAIN b |-> Floor(b[j])])

\* u = np.ceil(b).astype(int)
U(b) == Array([j \in DOMAIN b |-> Ceil(b[j])])

\* a mutant of WeightL: the weight u - b, without the test l == u
WeightL_NoEq(b, l, u) == Array([j \in DOMAIN b |-> RSub(Int2R(u[j]), b[j])])

\* the weight u + (l == u) - b
WeightL(b, l, u) ==
    Array([j \in DOMAIN b |->
        RSub(Int2R(u[j] + (IF l[j] = u[j] THEN 1 ELSE 0)), b[j])])

\* the weight b - l
WeightU(b, l) == Array([j \in DOMAIN b |-> RSub(b[j], Int2R(l[j]))])

\* d_m_l = (u + (l == u) - b) * prob_next
DML(b, l, u, ps) ==
    LET w == WeightL(b, l, u) IN Array([j \in DOMAIN b |-> RMul(w[j], ps[j])])

\* d_m_u = (b - l) * prob_next
DMU(b, l, ps) ==
    LET w == WeightU(b, l) IN Array([j \in DOMAIN b |-> RMul(w[j], ps[j])])

\* a mutant of AddAt: row[idx] += vals, where of the values sent to one index
\* only the last is added
AddAt_Buffered(row, idx, vals) ==
    Array([k \in DOMAIN row |->
        LET js == {j \in DOMAIN idx : idx[j] = k}
        IN  IF js = {} THEN row[k]
            ELSE RAdd(row[k], vals[CHOOSE j \in js : \A i \in js : i <= j])])

\* np.add.at(row, idx, vals): row[idx[j]] += vals[j] for every j
AddAt(row, idx, vals) ==
    Array([k \in DOMAIN row |->
        RAdd(row[k], RSum([j \in DOMAIN idx |-> IF idx[j] = k THEN vals[j] ELSE Zero]))])

Zeros == Array([k \in DOMAIN atoms |-> Zero])

\* the indices at which d_m_l and d_m_u are added
IndexL(l, u) == l
IndexU(l, u) == l

\* target_histo[i][action_next[i]] after the two scatter-adds
Row(p, r, t) ==
    LET b == B(r, t)
        l == L(b)
        u == U(b)
        ps == ProbSelected(p)
    IN  AddAt(AddAt(Zeros, IndexL(l, u), DML(b, l, u, ps)),
              IndexU(l, u), DMU(b, l, ps))

\* a mutant of Target: the projected row is written to every action
Target_AllRows(p, r, t) ==
    LET row == Row(p, r, t)
    IN  Array([a \in Range(config.action_dim) |-> row])

\* target_histo[i]: a row per action
Target(p, r, t) ==
    LET an == ActionNext(p)
        row == Row(p, r, t)
        zeros == Zeros
    IN  Array([a \in Range(config.action_dim) |-> IF a = an THEN row ELSE zeros])

TargetHisto(p, r, t) == Array([i \in DOMAIN p |-> Target(p[i], r[i], t[i])])

\* with delta_z = 0, b is 0/0 = NaN throughout and so are d_m_l and d_m_u
NaNHisto(p) ==
    [i \in DOMAIN p |-> [a \in Range(config.action_dim) |->
        IF a = ActionNext(p[i]) THEN [k \in DOMAIN atoms |-> IF k = 0 THEN NaN ELSE Zero]
        ELSE Zeros]]

\* train_by_replay on the sample (r, t) with the predictions p, delta_z # 0:
\* the target is built and actor_network.fit changes the actor's weights
Fit(p, r, t) ==
    /\ prob_next' = p
    /\ rewards' = r
    /\ terminals' = t
    /\ target_histo' = TargetHisto(p, r, t)
    /\ actor_network' = actor_network + 1

\* train_by_replay with delta_z = 0: the cast of NaN to int is undefined, the
\* indices are INT_MIN (np.add.at raises IndexError) or 0 (NaN is added at 0)
FitNaN(p, r, t) ==
    /\ prob_next' = p
    /\ rewards' = r
    /\ terminals' = t
    /\ \/ /\ pc' = "IndexError"
          /\ UNCHANGED <<target_histo, actor_network>>
       \/ /\ pc' = "trained"
          /\ target_histo' = NaNHisto(p)
          /\ actor_network' = actor_network + 1

\* agent.train_by_replay() called on a constructed agent
TrainByReplay ==
    /\ pc = "ready"
    /\ \E p \in ProbBatches, r \in RewardBatches, t \in TerminalBatches :
        IF delta_z = Zero
        THEN FitNaN(p, r, t)
        ELSE Fit(p, r, t) /\ pc' = "trained"
    /\ UNCHANGED <<config, atoms, delta_z, total_steps, replay_buffer, target_network,
                   each_ep, step, fits, syncs, action_prob, action>>

\* one step of agent.eval_step() on a constructed agent
EvalStep ==
    /\ pc = "ready"
    /\ \E probs \in ProbRows :
        /\ action_prob' = probs
        /\ action' = ArgMax(QValues(probs))
    /\ pc' = "evaluated"
    /\ UNCHANGED <<config, atoms, delta_z, total_steps, replay_buffer, actor_network,
                   target_network, each_ep, step, fits, syncs, prob_next, rewards,
                   terminals, target_histo>>

(***************************************************************************)
(* transition(): the agent loop.  The configurations that run it have      *)
(* delta_z > 0 and batch_size <= replay_buffer_size.                       *)
(***************************************************************************)
\* what envs.step returns as reward: CartPole-v0 pays 1 for every step
EnvRewards == {One}

\* replay_fn.uniform_random_replay(buffer, batch_size): batch_size records of
\* the buffer, drawn without replacement, as indices into the buffer
Samples(buffer, batch_size) ==
    {s \in [Range(batch_size) -> 1..Len(buffer)] :
        \A i, k \in Range(batch_size) : i # k => s[i] # s[k]}

\* cat.transition() is called on the constructed agent: the outer loop starts
Transition ==
    /\ pc = "ready"
    /\ pc' = "reset"
    /\ each_ep' = 0
    /\ UNCHANGED <<config, atoms, delta_z, total_steps, replay_buffer, actor_network,
                   target_network, step, fits, syncs, prob_next, rewards, terminals,
                   target_histo, action_prob, action>>

\* for each_ep in range(self.episodes): current_state = self.envs.reset()
Reset ==
    /\ pc = "reset"
    /\ IF each_ep < config.episodes
       THEN /\ step' = 0
            /\ IF 0 < config.steps
               THEN pc' = "step" /\ UNCHANGED each_ep
               ELSE pc' = "reset" /\ each_ep' = each_ep + 1
       ELSE /\ pc' = "finished"
            /\ UNCHANGED <<each_ep, step>>
    /\ UNCHANGED <<config, atoms, delta_z, total_steps, replay_buffer, actor_network,
                   target_network, fits, syncs, prob_next, rewards, terminals,
                   target_histo, action_prob, action>>

\* a mutant of SyncDue: one synchronisation, when the threshold is crossed
SyncDue_Once(ts) == ts = config.weights_update_frequency + 1

\* the condition of the synchronisation of the target network
SyncDue(ts) == ts > config.weights_update_frequency

\* a mutant of TrainDue: training once the buffer is over its size
TrainDue_Over(buffer) == Len(buffer) > config.replay_buffer_size

\* the condition of the training
TrainDue(buffer) == Len(buffer) = config.replay_buffer_size

\* the body of the inner loop: one environment step.  policies.epsilon_greedy
\* may return any action and envs.step any done flag; the states of the
\* environment, which only the networks read, are left out of the records.
Step ==
    /\ pc = "step"
    /\ \E act \in Range(config.action_dim), reward \in EnvRewards, done \in BOOLEAN :
        LET buffer == Append(replay_buffer,
                             [action |-> act, reward |-> reward, done |-> done])
        IN  /\ total_steps' = total_steps + 1
            /\ IF TrainDue(buffer)
               THEN /\ \E s \in Samples(buffer, config.batch_size), p \in ProbBatches :
                        Fit(p,
                            [i \in Range(config.batch_size) |-> buffer[s[i]].reward],
                            [i \in Range(config.batch_size) |->
                                IF buffer[s[i]].done THEN 1 ELSE 0])
                    /\ replay_buffer' = <<>>
                    /\ fits' = fits + 1
               ELSE /\ replay_buffer' = buffer
                    /\ UNCHANGED <<prob_next, rewards, terminals, target_histo,
                                   actor_network, fits>>
            /\ IF SyncDue(total_steps')
               THEN /\ target_network' = actor_network'
                    /\ syncs' = syncs + 1
               ELSE UNCHANGED <<target_network, syncs>>
            /\ IF done \/ step + 1 >= config.steps
               THEN /\ pc' = "reset"
                    /\ each_ep' = each_ep + 1
                    /\ UNCHANGED step
               ELSE /\ step' = step + 1
                    /\ UNCHANGED <<pc, each_ep>>
    /\ UNCHANGED <<config, atoms, delta_z, action_prob, action>>

Init == \E c \in ProjConfigs : Blank(c)

Next == Construct \/ TrainByReplay \/ EvalStep

Spec == Init /\ [][Next]_vars

InitCfg == \E c \in AnyConfigs : Blank(c)

SpecCfg == InitCfg /\ [][Next]_vars

InitLoop == \E c \in LoopConfigs : Blank(c)

NextLoop == Construct \/ Transition \/ Reset \/ Step

SpecLoop == InitLoop /\ [][NextLoop]_vars

(***************************************************************************)
(* Properties of the projection (train_by_replay) and of action selection  *)
(***************************************************************************)
\* train_by_replay has built a target histogram
Trained == pc = "trained"

\* the point mass at atom j
PointMass(j) == [k \in DOMAIN atoms |-> IF k = j THEN One ELSE Zero]

\* the row of target_histo[i] that holds mass
SelectedRow(i) == target_histo[i][ActionNext(prob_next[i])]

\* sum of the entries of a row
Mass(row) == RSum(row)

\* Tz[i][j] = reward + discount * (1 - terminal) * atoms[j], not clipped
Tz(i, j) ==
    RAdd(rewards[i],
         RMul(RMul(config.discount_rate, Int2R(1 - terminals[i])), atoms[j]))

\* Tz[i][j] saturated to [Vmin, Vmax]
TzClipped(i, j) ==
    LET lo == Int2R(config.Categorical_Vmin)
        hi == Int2R(config.Categorical_Vmax)
    IN  IF RLt(Tz(i, j), lo) THEN lo ELSE IF RLt(hi, Tz(i, j)) THEN hi ELSE Tz(i, j)

\* C1: for every batch item, the selected-action row of the target histogram
\* sums to 1 (p_next[b] being a probability vector).
C1_SelectedRowSumsToOne ==
    Trained =>
        \A i \in DOMAIN target_histo :
            Mass(ProbSelected(prob_next[i])) = One => Mass(SelectedRow(i)) = One

\* C1 witness: a projection in which an atom with mass falls strictly between
\* two grid points and another value is saturated by the clipping
C1_Witness ==
    /\ Trained
    /\ \E i \in DOMAIN target_histo :
        LET b == B(rewards[i], terminals[i])
            l == L(b)
            u == U(b)
            ps == ProbSelected(prob_next[i])
        IN  /\ \E j \in DOMAIN atoms : l[j] # u[j] /\ ps[j] # Zero
            /\ \E j \in DOMAIN atoms : Tz(i, j) # TzClipped(i, j)
            /\ Mass(SelectedRow(i)) = One

\* C2: the final row holds, at each index k, the lower contributions of the atoms
\* with l = k plus the upper contributions of the atoms with u = k.
C2_UpperAddedAtU ==
    Trained =>
        \A i \in DOMAIN target_histo :
            LET b == B(rewards[i], terminals[i])
                l == L(b)
                u == U(b)
                ps == ProbSelected(prob_next[i])
                dml == DML(b, l, u, ps)
                dmu == DMU(b, l, ps)
            IN  \A k \in DOMAIN atoms :
                    SelectedRow(i)[k] =
                        RAdd(RSum([j \in DOMAIN atoms |-> IF l[j] = k THEN dml[j] ELSE Zero]),
                             RSum([j \in DOMAIN atoms |-> IF u[j] = k THEN dmu[j] ELSE Zero]))

\* C3: for every batch item and atom the two interpolation weights sum to
\* exactly 1, whether l = u or not, and the two contributions of the atom sum
\* to its probability mass.
C3_WeightsSumToOne ==
    Trained =>
        \A i \in DOMAIN target_histo :
            LET b == B(rewards[i], terminals[i])
                l == L(b)
                u == U(b)
                ps == ProbSelected(prob_next[i])
                wl == WeightL(b, l, u)
                wu == WeightU(b, l)
                dml == DML(b, l, u, ps)
                dmu == DMU(b, l, ps)
            IN  \A j \in DOMAIN atoms :
                    /\ RAdd(wl[j], wu[j]) = One
                    /\ RAdd(dml[j], dmu[j]) = ps[j]

\* C3 witness: one projection with an atom exactly on a grid point (l = u) and
\* an atom strictly between two grid points, both carrying mass
C3_Witness ==
    /\ Trained
    /\ \E i \in DOMAIN target_histo :
        LET b == B(rewards[i], terminals[i])
            l == L(b)
            u == U(b)
            ps == ProbSelected(prob_next[i])
        IN  /\ \E j \in DOMAIN atoms : l[j] = u[j] /\ ps[j] # Zero
            /\ \E j \in DOMAIN atoms : l[j] # u[j] /\ ps[j] # Zero

\* the two scenarios of the specification on the support -10..10 with 21 atoms
WideAgent ==
    <<config.Categorical_Vmin, config.Categorical_Vmax, config.Categorical_n_atoms>>
        = WideSupport

\* C4: when p_next[b] is a point mass at atom j and the clipped Tz[b,j] is
\* exactly grid point k, the selected row is the point mass at k; with
\* 21 atoms on -10..10 a terminal transition with reward 0 and mass at index 10
\* gives the point mass at 10, and a non-terminal one with reward 1, discount
\* 0.9 and mass at atom value 0 gives the point mass at 11.
C4_PointMassOnGrid ==
    Trained =>
        \A i \in DOMAIN target_histo :
            LET ps == ProbSelected(prob_next[i])
                row == SelectedRow(i)
            IN  /\ \A j \in DOMAIN atoms :
                    ps = PointMass(j) =>
                        \A k \in DOMAIN atoms :
                            TzClipped(i, j) = atoms[k] => row = PointMass(k)
                /\ (/\ WideAgent
                    /\ rewards[i] = Zero
                    /\ terminals[i] = 1
                    /\ ps = PointMass(10))
                        => row = PointMass(10)
                /\ (/\ WideAgent
                    /\ config.discount_rate = Rat(9, 10)
                    /\ rewards[i] = One
                    /\ terminals[i] = 0
                    /\ ps = PointMass(10))
                        => row = PointMass(11)

\* C4 witness: the non-terminal scenario (reward 1, discount 0.9, mass at
\* the atom of value 0) has been projected onto index 11
C4_Witness ==
    /\ Trained
    /\ WideAgent
    /\ config.discount_rate = Rat(9, 10)
    /\ rewards[0] = One
    /\ terminals[0] = 0
    /\ atoms[10] = Zero
    /\ ProbSelected(prob_next[0]) = PointMass(10)
    /\ SelectedRow(0) = PointMass(11)

\* C5: every value used for binning lies in [Vmin, Vmax] after clipping, also
\* when the raw value is outside, and every bin index l, u is in 0..n_atoms-1.
C5_ClippedInRange ==
    Trained =>
        \A i \in DOMAIN target_histo :
            LET an == AtomsNext(rewards[i], terminals[i])
                b == B(rewards[i], terminals[i])
                l == L(b)
                u == U(b)
            IN  \A j \in DOMAIN atoms :
                    /\ RLe(Int2R(config.Categorical_Vmin), an[j])
                    /\ RLe(an[j], Int2R(config.Categorical_Vmax))
                    /\ an[j] = TzClipped(i, j)
                    /\ l[j] \in Range(config.Categorical_n_atoms)
                    /\ u[j] \in Range(config.Categorical_n_atoms)

\* C5 witness: a projection with a raw value above Vmax and one below Vmin
C5_Witness ==
    /\ Trained
    /\ \E i, k \in DOMAIN target_histo :
        /\ \E j \in DOMAIN atoms : RLt(Int2R(config.Categorical_Vmax), Tz(i, j))
        /\ \E j \in DOMAIN atoms : RLt(Tz(k, j), Int2R(config.Categorical_Vmin))

\* C6: for every batch item every action row other than action_next[b] is all
\* zeros; only the selected action's row receives mass.
C6_OtherRowsZero ==
    Trained =>
        \A i \in DOMAIN target_histo :
            LET an == ActionNext(prob_next[i])
            IN  \A a \in Range(config.action_dim) :
                    IF a = an
                    THEN Mass(target_histo[i][a]) # Zero
                    ELSE \A k \in DOMAIN atoms : target_histo[i][a][k] = Zero

\* C6 witness: a batch of two items that select different actions
C6_Witness ==
    /\ Trained
    /\ config.batch_size = 2
    /\ ActionNext(prob_next[0]) # ActionNext(prob_next[1])
    /\ Mass(target_histo[0][ActionNext(prob_next[0])]) = One
    /\ Mass(target_histo[1][ActionNext(prob_next[1])]) = One

\* the expectation of distribution d over the atoms
Expectation(d) == RSum([j \in DOMAIN atoms |-> RMul(d[j], atoms[j])])

\* a is the lowest index among the actions of maximal Q-value
FirstMax(probs, a) ==
    LET q == Array([k \in DOMAIN probs |-> Expectation(probs[k])])
    IN  /\ \A k \in DOMAIN probs : RLe(q[k], q[a])
        /\ \A k \in DOMAIN probs : q[k] = q[a] => a <= k

\* C7: greedy selection (eval_step's action, train_by_replay's action_next,
\* seen as the row of the target that holds the mass) returns an index of
\* maximal Q-value, the lowest one when several are maximal.
C7_FirstMaxAction ==
    /\ pc = "evaluated" => FirstMax(action_prob, action)
    /\ Trained =>
        \A i \in DOMAIN target_histo :
            \A a \in Range(config.action_dim) :
                Mass(target_histo[i][a]) # Zero => FirstMax(prob_next[i], a)

\* two different distributions of equal expectation, the higher index chosen
\* by neither eval_step nor train_by_replay
Tie(probs) ==
    /\ DOMAIN probs = {0, 1}
    /\ probs[0] # probs[1]
    /\ Expectation(probs[0]) = Expectation(probs[1])

\* C7 witness: eval_step has chosen action 0 between two different
\* distributions of equal Q-value
C7_Witness ==
    /\ pc = "evaluated"
    /\ Tie(action_prob)
    /\ action = 0

\* C8: a configuration with n_atoms < 2 or vmax <= vmin (delta_z = 0 included)
\* is rejected by the constructor, so no such agent is ever ready to train.
C8_InvalidConfigRejected ==
    ~ValidSupport(config) => pc \in {"new", "ZeroDivisionError"}

(***************************************************************************)
(* Properties of the agent loop (transition)                               *)
(***************************************************************************)
\* C9: with replay_buffer_size >= 1 every step appends one record (also the
\* step on which done is true), training runs once exactly when the buffer
\* reaches replay_buffer_size and the buffer is then emptied: after every
\* step the buffer is shorter than replay_buffer_size, it is kept across
\* episodes, and the trainings are those of the steps whose number is a
\* multiple of replay_buffer_size.
C9_TrainWhenBufferFull ==
    config.replay_buffer_size >= 1 =>
        /\ Len(replay_buffer) = total_steps % config.replay_buffer_size
        /\ Len(replay_buffer) < config.replay_buffer_size
        /\ fits = total_steps \div config.replay_buffer_size
        /\ actor_network = fits

\* C9 witness: in a later episode, after a training, the buffer holds a
\* record of a step that ended an episode
C9_Witness ==
    /\ each_ep >= 1
    /\ fits >= 1
    /\ Len(replay_buffer) >= 1
    /\ \E k \in 1..Len(replay_buffer) : replay_buffer[k].done
    /\ total_steps % config.replay_buffer_size # 0

\* C10: the target network takes the actor's weights at the end of a step
\* exactly when total_steps > weights_update_frequency: never up to step
\* weights_update_frequency, and on every step after it, after the training of
\* that step; total_steps is never reset.
C10_SyncEveryStepAfterThreshold ==
    /\ total_steps <= config.weights_update_frequency =>
        /\ syncs = 0
        /\ target_network = 0
    /\ total_steps > config.weights_update_frequency =>
        /\ syncs = total_steps - config.weights_update_frequency
        /\ target_network = actor_network

\* C10 witness: steps of a later episode past the threshold, the target
\* synchronised several times and holding weights trained after the threshold
C10_Witness ==
    /\ each_ep >= 1
    /\ config.weights_update_frequency >= 1
    /\ syncs >= 2
    /\ fits >= 2
    /\ total_steps % config.replay_buffer_size = 0
    /\ target_network = actor_network
    /\ target_network = fits

====
